---- MODULE Spec2Model ----
(***************************************************************************)
(* A model of FinanceTracker (src/app/page.tsx): the transaction list, the *)
(* add/edit form, the three effects and the value kept in localStorage.   *)
(*                                                                         *)
(* Money is counted in cents (the amount field has step 0.01).  A text the *)
(* code looks into character by character (the amount field) is a sequence *)
(* of one-character strings; a text it only compares is a TLA+ string.     *)
(* An optional value (string | null) is <<>> for null and <<v>> otherwise. *)
(***************************************************************************)
EXTENDS Integers, Sequences, FiniteSets, TLC

\* ------------------------------------------------------------------ bounds

\* Longest transaction list the model builds (adds are cut off there).
MaxLen == 2

\* Last millisecond the clock reaches; it starts at FirstNow.
MaxNow == 4

\* How many entries of each category list the user picks from in the model.
MaxPick == 2

\* --------------------------------------------------------- program constants

expenseCategories ==
    <<"Food", "Housing", "Transportation", "Entertainment",
      "Utilities", "Healthcare", "Shopping", "Other">>

incomeCategories == <<"Salary", "Freelance", "Investments", "Gifts", "Other">>

TransactionType == {"income", "expense"}

\* The category list the form offers for a type (the Select's items).
CategoryList(ty) == IF ty = "expense" THEN expenseCategories ELSE incomeCategories

Range(s) == {s[i] : i \in DOMAIN s}

\* ------------------------------------------------------------ JS numbers

\* A JS value held in a record's amount: a finite number of cents, NaN, or
\* null (what JSON.parse gives back for a number that was not finite).
JNum(n) == [t |-> "number", v |-> n]
NaN == [t |-> "NaN", v |-> 0]
JNull == [t |-> "null", v |-> 0]

\* x <= 0 in JS: false for NaN.
LeqZero(x) == x.t = "number" /\ x.v <= 0

DigitChars == <<"0", "1", "2", "3", "4", "5", "6", "7", "8", "9">>

IsDigit(c) == c \in Range(DigitChars)

DigitVal(c) == CHOOSE d \in 0..9 : DigitChars[d + 1] = c

\* How many digits s holds in a row from position i on.
RECURSIVE DigitRun(_, _)
DigitRun(s, i) ==
    IF i <= Len(s) /\ IsDigit(s[i]) THEN 1 + DigitRun(s, i + 1) ELSE 0

\* The value of the n digits of s from position i on.
RECURSIVE DigitsValue(_, _, _)
DigitsValue(s, i, n) ==
    IF n = 0 THEN 0
    ELSE 10 * DigitsValue(s, i, n - 1) + DigitVal(s[i + n - 1])

\* Number.parseFloat: the longest prefix [+-] digits [. digits]; NaN when
\* there is none.  The result is in cents; digits past the second decimal
\* are dropped (no input of the model has any).
ParseFloat(s) ==
    LET signed == Len(s) >= 1 /\ s[1] \in {"-", "+"}
        start == IF signed THEN 2 ELSE 1
        nInt == DigitRun(s, start)
        dot == start + nInt
        hasDot == dot <= Len(s) /\ s[dot] = "."
        nFrac == IF hasDot THEN DigitRun(s, dot + 1) ELSE 0
        tenths == IF nFrac >= 1 THEN DigitVal(s[dot + 1]) ELSE 0
        hundredths == IF nFrac >= 2 THEN DigitVal(s[dot + 2]) ELSE 0
        cents == 100 * DigitsValue(s, start, nInt) + 10 * tenths + hundredths
    IN  IF nInt = 0 /\ nFrac = 0 THEN NaN
        ELSE JNum(IF signed /\ s[1] = "-" THEN 0 - cents ELSE cents)

\* The decimal digits of a natural number.
RECURSIVE NatChars(_)
NatChars(n) ==
    IF n < 10 THEN <<DigitChars[n + 1]>>
    ELSE NatChars(n \div 10) \o <<DigitChars[(n % 10) + 1]>>

\* Number.prototype.toString for a number of cents: no trailing zeros.
CentsChars(c) ==
    LET a == IF c < 0 THEN 0 - c ELSE c
        frac == a % 100
        fracChars ==
            IF frac = 0 THEN <<>>
            ELSE IF frac % 10 = 0 THEN <<".", DigitChars[(frac \div 10) + 1]>>
            ELSE <<".", DigitChars[(frac \div 10) + 1], DigitChars[(frac % 10) + 1]>>
    IN  (IF c < 0 THEN <<"-">> ELSE <<>>) \o NatChars(a \div 100) \o fracChars

\* transaction.amount.toString() of a number value.
NumberToString(x) == IF x.t = "NaN" THEN <<"N", "a", "N">> ELSE CentsChars(x.v)

\* The text of a natural number as a TLA+ string: Date.now().toString().
RECURSIVE NatString(_)
NatString(n) ==
    IF n < 10 THEN DigitChars[n + 1]
    ELSE NatString(n \div 10) \o DigitChars[(n % 10) + 1]

\* As NumberInputValue, were the amount a text input: whatever was typed.
NumberInputValue_Text(typed) == typed

\* The value an <input type="number"> reports for what was typed: the text
\* when it is a valid floating-point number ([-] digits [. digits]), and
\* the empty string otherwise.
NumberInputValue(typed) ==
    LET neg == Len(typed) >= 1 /\ typed[1] = "-"
        start == IF neg THEN 2 ELSE 1
        nInt == DigitRun(typed, start)
        dot == start + nInt
        hasDot == dot <= Len(typed) /\ typed[dot] = "."
        nFrac == IF hasDot THEN DigitRun(typed, dot + 1) ELSE 0
        used == (start - 1) + nInt + (IF hasDot THEN 1 + nFrac ELSE 0)
        valid == /\ used = Len(typed)
                 /\ IF hasDot THEN nFrac >= 1 ELSE nInt >= 1
    IN  IF valid THEN typed ELSE <<>>

\* new Date().toISOString().split("T")[0] at millisecond t of January 1970.
MsPerDay == 86400000

DateOf(t) ==
    LET day == 1 + (t \div MsPerDay)
    IN  "1970-01-" \o (IF day < 10 THEN "0" ELSE "") \o NatString(day)

\* ------------------------------------------------------------------ JSON

\* A JSON text is modelled by its tree: an array of objects, each object
\* the sequence of its members in the order JSON.stringify writes them.
JString(s) == [j |-> "string", s |-> s, n |-> 0]
JNumber(n) == [j |-> "number", s |-> "", n |-> n]
JNullText == [j |-> "null", s |-> "", n |-> 0]

\* JSON.stringify of a number value: a number that is not finite is null.
NumberText(x) == IF x.t = "number" THEN JNumber(x.v) ELSE JNullText

ObjectText(r) ==
    << [key |-> "id", val |-> JString(r.id)],
       [key |-> "description", val |-> JString(r.description)],
       [key |-> "amount", val |-> NumberText(r.amount)],
       [key |-> "type", val |-> JString(r.type)],
       [key |-> "category", val |-> JString(r.category)],
       [key |-> "date", val |-> JString(r.date)] >>

\* JSON.stringify(transactions)
JSON_stringify(txs) == [i \in 1..Len(txs) |-> ObjectText(txs[i])]

Member(o, k) == (CHOOSE m \in Range(o) : m.key = k).val

NumberOfText(v) == IF v.j = "number" THEN JNum(v.n) ELSE JNull

ObjectOfText(o) ==
    [id |-> Member(o, "id").s,
     description |-> Member(o, "description").s,
     amount |-> NumberOfText(Member(o, "amount")),
     type |-> Member(o, "type").s,
     category |-> Member(o, "category").s,
     date |-> Member(o, "date").s]

\* JSON.parse(savedTransactions)
JSON_parse(text) == [i \in 1..Len(text) |-> ObjectOfText(text[i])]

\* ----------------------------------------------------------------- state

VARIABLES
    transactions,   \* useState<Transaction[]>: the list of the last render
    description,    \* form field
    amount,         \* form field, the text of the number input
    type,           \* form field
    category,       \* form field
    editingId,      \* <<>> (null) or <<id>>
    activeTab,      \* "dashboard" or "add"
    localStorage,   \* the item "transactions": <<>> (absent) or <<text>>
    now,            \* the clock, in milliseconds
    strictMode,     \* whether React runs the mount effects twice
    pc,             \* where startup stands; "ready" once it has settled
    pass,           \* which run of the mount effects is under way
    queue,          \* the lists given to setTransactions, not yet rendered
    lastAction,     \* the last thing the user did: "none" before the first
    opened          \* the item at page load, kept until the user first acts

vars ==
    <<transactions, description, amount, type, category, editingId, activeTab,
      localStorage, now, strictMode, pc, pass, queue, lastAction, opened>>

form == <<description, amount, type, category>>

\* First millisecond of the session; earlier sessions made ids before it.
FirstNow == 3

\* What the user types into the description and the amount field.
TypedDescriptions == {"", "Coffee"}

TypedAmounts ==
    { <<>>, <<"a", "b", "c">>, <<"0">>, <<"-", "5">>, <<"4", ".", "5", "0">> }

\* The categories the user picks from: the first MaxPick of the list shown.
Pickable(ty) ==
    {CategoryList(ty)[i] : i \in 1..(IF MaxPick < Len(CategoryList(ty))
                                     THEN MaxPick ELSE Len(CategoryList(ty)))}

\* Lists an earlier session left in localStorage.
Pay ==
    [id |-> "1", description |-> "Pay", amount |-> JNum(100000),
     type |-> "income", category |-> "Freelance", date |-> "1970-01-01"]

Rent ==
    [id |-> "2", description |-> "Rent", amount |-> JNum(20000),
     type |-> "expense", category |-> "Housing", date |-> "1970-01-01"]

EarlierSessions == { <<>>, <<Pay>>, <<Pay, Rent>> }

\* What localStorage holds when the page is opened: nothing, or the text an
\* earlier session wrote.
StoredAtStart == { <<>> } \cup { <<JSON_stringify(S)>> : S \in EarlierSessions }

\* The item at page load, while the user has not acted; forgotten afterwards.
Opened(item) == [known |-> TRUE, item |-> item]
Forgotten == [known |-> FALSE, item |-> <<>>]

Init ==
    /\ transactions = <<>>
    /\ description = ""
    /\ amount = <<>>
    /\ type = "expense"
    /\ category = expenseCategories[1]
    /\ editingId = <<>>
    /\ activeTab = "dashboard"
    /\ localStorage \in StoredAtStart
    /\ now = FirstNow
    /\ strictMode \in BOOLEAN
    /\ pc = "load"
    /\ pass = 1
    /\ queue = <<>>
    /\ lastAction = "none"
    /\ opened = Opened(localStorage)

\* --------------------------------------------------------------- effects

\* An optional string that is neither null nor empty, as in editingId || ...
Truthy(opt) == opt # <<>> /\ opt[1] # ""

\* Lines 58-63: what the load effect hands to setTransactions, if anything.
LoadEffect(stored, q) ==
    IF stored # <<>> THEN Append(q, JSON_parse(stored[1])) ELSE q

\* As SaveEffect, were the effect not to run: the item stays as it was.
SaveEffect_Skipped(txs, stored) == stored

\* Lines 66-68: the item written by the save effect.
SaveEffect(txs, stored) == <<JSON_stringify(txs)>>

\* As CategoryEffect, with the first expense category whatever the type.
CategoryEffect_AlwaysExpense(ty) == expenseCategories[1]

\* Lines 149-151: the category the type effect sets.
CategoryEffect(ty) ==
    IF ty = "expense" THEN expenseCategories[1] ELSE incomeCategories[1]

\* As SettledCategory, without the type effect.
SettledCategory_NoEffect(oldType, newType, setTo) == setTo

\* The category after a handler set the type to newType and the category to
\* setTo: the type effect runs, after the render, when the type has changed.
SettledCategory(oldType, newType, setTo) ==
    IF newType # oldType THEN CategoryEffect(newType) ELSE setTo

formVars == <<description, amount, type, category, editingId, activeTab>>
startVars == <<strictMode, pc, pass, queue>>

\* ---------------------------------------------------------------- startup

MountLoad ==
    /\ pc = "load"
    /\ queue' = LoadEffect(localStorage, queue)
    /\ pc' = "save"
    /\ UNCHANGED <<transactions, formVars, localStorage, now, strictMode, pass, lastAction, opened>>

MountSave ==
    /\ pc = "save"
    /\ localStorage' = SaveEffect(transactions, localStorage)
    /\ pc' = "category"
    /\ UNCHANGED <<transactions, formVars, now, strictMode, pass, queue, lastAction, opened>>

MountCategory ==
    /\ pc = "category"
    /\ category' = CategoryEffect(type)
    /\ IF strictMode /\ pass = 1
       THEN pc' = "load" /\ pass' = 2
       ELSE pc' = "render" /\ pass' = pass
    /\ UNCHANGED <<transactions, description, amount, type, editingId, activeTab,
                   localStorage, now, strictMode, queue, lastAction, opened>>

\* The render after the mount effects: the queued updates are applied in
\* order, so the last list given to setTransactions is the new state.
Render ==
    /\ pc = "render"
    /\ IF queue # <<>>
       THEN transactions' = queue[Len(queue)] /\ pc' = "resave"
       ELSE transactions' = transactions /\ pc' = "ready"
    /\ queue' = <<>>
    /\ UNCHANGED <<formVars, localStorage, now, strictMode, pass, lastAction, opened>>

\* The save effect again: the list it depends on is a new one.
Resave ==
    /\ pc = "resave"
    /\ localStorage' = SaveEffect(transactions, localStorage)
    /\ pc' = "ready"
    /\ UNCHANGED <<transactions, formVars, now, strictMode, pass, queue, lastAction, opened>>

\* --------------------------------------------------------------- handlers

\* As Rejected, with < 0 in place of <= 0.
Rejected_ZeroPasses(desc, amt) ==
    desc = "" \/ amt = <<>> \/ (ParseFloat(amt).t = "number" /\ ParseFloat(amt).v < 0)

\* Line 97: the submissions handleSubmit drops.
Rejected(desc, amt) ==
    desc = "" \/ amt = <<>> \/ LeqZero(ParseFloat(amt))

\* Lines 101-108: the record handleSubmit builds.
NewTransaction(editing, desc, amt, ty, cat, t) ==
    [id |-> IF Truthy(editing) THEN editing[1] ELSE NatString(t),
     description |-> desc,
     amount |-> ParseFloat(amt),
     type |-> ty,
     category |-> cat,
     date |-> DateOf(t)]

\* Line 111: transactions.map((t) => (t.id === editingId ? newTransaction : t))
Replaced(txs, id, rec) ==
    [i \in 1..Len(txs) |-> IF txs[i].id = id THEN rec ELSE txs[i]]

\* As Appended, with the new record put first.
Appended_First(txs, rec) == <<rec>> \o txs

\* Line 114: [...transactions, newTransaction]
Appended(txs, rec) == Append(txs, rec)

\* Line 136: transactions.filter((t) => t.id !== id)
RECURSIVE Removed(_, _)
Removed(txs, id) ==
    IF txs = <<>> THEN <<>>
    ELSE IF Head(txs).id = id THEN Removed(Tail(txs), id)
    ELSE <<Head(txs)>> \o Removed(Tail(txs), id)

\* The list handleSubmit gives to setTransactions (lines 110-115).
Submitted(txs, editing, rec) ==
    IF Truthy(editing) THEN Replaced(txs, editing[1], rec) ELSE Appended(txs, rec)

Ready == pc = "ready"

\* Lines 330-336: typing into the description field.
SetDescription ==
    /\ Ready /\ activeTab = "add"
    /\ \E d \in TypedDescriptions : description' = d
    /\ lastAction' = "input"
    /\ opened' = Forgotten
    /\ UNCHANGED <<transactions, amount, type, category, editingId, activeTab,
                   localStorage, now, startVars>>

\* Lines 341-350: typing into the amount field, a number input.
SetAmount ==
    /\ Ready /\ activeTab = "add"
    /\ \E typed \in TypedAmounts : amount' = NumberInputValue(typed)
    /\ lastAction' = "input"
    /\ opened' = Forgotten
    /\ UNCHANGED <<transactions, description, type, category, editingId, activeTab,
                   localStorage, now, startVars>>

\* Lines 312-316: the radio group; the type effect follows a change.
SetType ==
    /\ Ready /\ activeTab = "add"
    /\ \E ty \in TransactionType :
         /\ type' = ty
         /\ category' = SettledCategory(type, ty, category)
    /\ lastAction' = "input"
    /\ opened' = Forgotten
    /\ UNCHANGED <<transactions, description, amount, editingId, activeTab,
                   localStorage, now, startVars>>

\* Lines 355-366: the select offers the list of the form's type.
SetCategory ==
    /\ Ready /\ activeTab = "add"
    /\ \E cat \in Pickable(type) : category' = cat
    /\ lastAction' = "input"
    /\ opened' = Forgotten
    /\ UNCHANGED <<transactions, description, amount, type, editingId, activeTab,
                   localStorage, now, startVars>>

\* Line 157: the tab triggers.
SetActiveTab ==
    /\ Ready
    /\ \E tab \in {"dashboard", "add"} : activeTab' = tab
    /\ lastAction' = "input"
    /\ opened' = Forgotten
    /\ UNCHANGED <<transactions, description, amount, type, category, editingId,
                   localStorage, now, startVars>>

\* As handleSubmit, without setEditingId(null) on the edit path.
handleSubmit_KeepsEditing ==
    /\ Ready /\ activeTab = "add"
    /\ IF Rejected(description, amount)
       THEN /\ lastAction' = "submit-rejected"
            /\ UNCHANGED <<transactions, formVars, localStorage>>
       ELSE LET rec == NewTransaction(editingId, description, amount, type, category, now)
                next == Submitted(transactions, editingId, rec)
            IN  /\ Len(next) <= MaxLen
                /\ transactions' = next
                /\ description' = ""
                /\ amount' = <<>>
                /\ type' = "expense"
                /\ category' = SettledCategory(type, "expense", expenseCategories[1])
                /\ localStorage' = SaveEffect(next, localStorage)
                /\ lastAction' = IF Truthy(editingId) THEN "submit-edit" ELSE "submit-new"
                /\ UNCHANGED <<editingId, activeTab>>
    /\ opened' = Forgotten
    /\ UNCHANGED <<now, startVars>>

\* Lines 94-122, with the render and the effects that follow it.
handleSubmit ==
    /\ Ready /\ activeTab = "add"
    /\ IF Rejected(description, amount)
       THEN /\ lastAction' = "submit-rejected"
            /\ UNCHANGED <<transactions, formVars, localStorage>>
       ELSE LET rec == NewTransaction(editingId, description, amount, type, category, now)
                next == Submitted(transactions, editingId, rec)
            IN  /\ Len(next) <= MaxLen
                /\ transactions' = next
                /\ editingId' = IF Truthy(editingId) THEN <<>> ELSE editingId
                /\ description' = ""
                /\ amount' = <<>>
                /\ type' = "expense"
                /\ category' = SettledCategory(type, "expense", expenseCategories[1])
                /\ localStorage' = SaveEffect(next, localStorage)
                /\ lastAction' = IF Truthy(editingId) THEN "submit-edit" ELSE "submit-new"
                /\ UNCHANGED activeTab
    /\ opened' = Forgotten
    /\ UNCHANGED <<now, startVars>>

\* As handleEdit, taking a fresh id in place of the record's.
handleEdit_FreshId ==
    /\ Ready /\ activeTab = "dashboard"
    /\ \E i \in DOMAIN transactions :
         LET t == transactions[i]
         IN  /\ editingId' = <<NatString(now)>>
             /\ description' = t.description
             /\ IF t.amount.t = "null"
                THEN UNCHANGED <<amount, type, category, activeTab>>
                ELSE /\ amount' = NumberToString(t.amount)
                     /\ type' = t.type
                     /\ category' = SettledCategory(type, t.type, t.category)
                     /\ activeTab' = "add"
    /\ lastAction' = "start-edit"
    /\ opened' = Forgotten
    /\ UNCHANGED <<transactions, localStorage, now, startVars>>

\* Lines 125-132, with the render and the type effect that follows it.  The
\* amount of a record read back as null has no toString: the handler stops
\* there, and the two updates made before it stand.
handleEdit ==
    /\ Ready /\ activeTab = "dashboard"
    /\ \E i \in DOMAIN transactions :
         LET t == transactions[i]
         IN  /\ editingId' = <<t.id>>
             /\ description' = t.description
             /\ IF t.amount.t = "null"
                THEN UNCHANGED <<amount, type, category, activeTab>>
                ELSE /\ amount' = NumberToString(t.amount)
                     /\ type' = t.type
                     /\ category' = SettledCategory(type, t.type, t.category)
                     /\ activeTab' = "add"
    /\ lastAction' = "start-edit"
    /\ opened' = Forgotten
    /\ UNCHANGED <<transactions, localStorage, now, startVars>>

\* Lines 135-137, with the render and the save effect that follows it.
handleDelete ==
    /\ Ready /\ activeTab = "dashboard"
    /\ \E i \in DOMAIN transactions :
         LET next == Removed(transactions, transactions[i].id)
         IN  /\ transactions' = next
             /\ localStorage' = SaveEffect(next, localStorage)
    /\ lastAction' = "delete"
    /\ opened' = Forgotten
    /\ UNCHANGED <<formVars, now, startVars>>

\* As handleCancel, leaving the description and the amount in the fields.
handleCancel_KeepsFields ==
    /\ Ready /\ activeTab = "add"
    /\ Truthy(editingId)
    /\ editingId' = <<>>
    /\ type' = "expense"
    /\ category' = SettledCategory(type, "expense", expenseCategories[1])
    /\ lastAction' = "cancel-edit"
    /\ opened' = Forgotten
    /\ UNCHANGED <<description, amount, transactions, activeTab, localStorage, now, startVars>>

\* Lines 140-146; the button is there while editingId is set (line 382).
handleCancel ==
    /\ Ready /\ activeTab = "add"
    /\ Truthy(editingId)
    /\ editingId' = <<>>
    /\ description' = ""
    /\ amount' = <<>>
    /\ type' = "expense"
    /\ category' = SettledCategory(type, "expense", expenseCategories[1])
    /\ lastAction' = "cancel-edit"
    /\ opened' = Forgotten
    /\ UNCHANGED <<transactions, activeTab, localStorage, now, startVars>>

\* A millisecond passes: Date.now() gives the next value.
Tick ==
    /\ now < MaxNow
    /\ now' = now + 1
    /\ UNCHANGED <<transactions, formVars, localStorage, startVars, lastAction, opened>>

Next ==
    \/ MountLoad
    \/ MountSave
    \/ MountCategory
    \/ Render
    \/ Resave
    \/ SetDescription
    \/ SetAmount
    \/ SetType
    \/ SetCategory
    \/ SetActiveTab
    \/ handleSubmit
    \/ handleEdit
    \/ handleDelete
    \/ handleCancel
    \/ Tick

Spec == Init /\ [][Next]_vars

\* ------------------------------------------------- a store that can refuse

\* localStorage.setItem may throw (the quota is exceeded, or the store is
\* disabled).  Line 67 calls it bare inside the effect: the handler has
\* returned by then, the new state is committed, and the error thrown by
\* the effect takes the page down.

\* Lines 66-68 at mount or after the first render, setItem throwing.
MountSaveThrows ==
    /\ pc \in {"save", "resave"}
    /\ pc' = "crashed"
    /\ UNCHANGED <<transactions, formVars, localStorage, now, strictMode, pass, queue,
                   lastAction, opened>>

\* Lines 94-122 for an accepted submission, then lines 66-68 with setItem
\* throwing.
SubmitSaveThrows ==
    /\ Ready /\ activeTab = "add"
    /\ ~Rejected(description, amount)
    /\ LET rec == NewTransaction(editingId, description, amount, type, category, now)
           next == Submitted(transactions, editingId, rec)
       IN  /\ Len(next) <= MaxLen
           /\ transactions' = next
    /\ editingId' = IF Truthy(editingId) THEN <<>> ELSE editingId
    /\ description' = ""
    /\ amount' = <<>>
    /\ type' = "expense"
    /\ category' = SettledCategory(type, "expense", expenseCategories[1])
    /\ lastAction' = IF Truthy(editingId) THEN "submit-edit" ELSE "submit-new"
    /\ opened' = Forgotten
    /\ pc' = "crashed"
    /\ UNCHANGED <<activeTab, localStorage, now, strictMode, pass, queue>>

\* Lines 135-137, then lines 66-68 with setItem throwing.
DeleteSaveThrows ==
    /\ Ready /\ activeTab = "dashboard"
    /\ \E i \in DOMAIN transactions :
         transactions' = Removed(transactions, transactions[i].id)
    /\ lastAction' = "delete"
    /\ opened' = Forgotten
    /\ pc' = "crashed"
    /\ UNCHANGED <<formVars, localStorage, now, strictMode, pass, queue>>

NextFailing ==
    \/ Next
    \/ MountSaveThrows
    \/ SubmitSaveThrows
    \/ DeleteSaveThrows

SpecFailing == Init /\ [][NextFailing]_vars

\* ----------------------------------------------------------- derived views

\* sum + t.amount on number values: NaN if either is NaN; null counts as 0.
JSAdd(x, y) == IF x.t = "NaN" \/ y.t = "NaN" THEN NaN ELSE JNum(x.v + y.v)

\* totalIncome - totalExpenses
JSSub(x, y) == IF x.t = "NaN" \/ y.t = "NaN" THEN NaN ELSE JNum(x.v - y.v)

\* transactions.filter((t) => t.type === ty)
RECURSIVE OfType(_, _)
OfType(txs, ty) ==
    IF txs = <<>> THEN <<>>
    ELSE IF Head(txs).type = ty THEN <<Head(txs)>> \o OfType(Tail(txs), ty)
    ELSE OfType(Tail(txs), ty)

\* .reduce((sum, t) => sum + t.amount, 0) over the first n records.
RECURSIVE SumTo(_, _)
SumTo(txs, n) ==
    IF n = 0 THEN JNum(0) ELSE JSAdd(SumTo(txs, n - 1), txs[n].amount)

\* As totalIncome, filtering on the wrong type.
totalIncome_OfExpenses(txs) == SumTo(OfType(txs, "expense"), Len(OfType(txs, "expense")))

\* Line 71.
totalIncome(txs) == SumTo(OfType(txs, "income"), Len(OfType(txs, "income")))

\* As totalExpenses, without the filter.
totalExpenses_OfAll(txs) == SumTo(txs, Len(txs))

\* Line 73.
totalExpenses(txs) == SumTo(OfType(txs, "expense"), Len(OfType(txs, "expense")))

\* Line 75.
balance(txs) == JSSub(totalIncome(txs), totalExpenses(txs))

\* Lines 80-91: the accumulator after the first n records of ex.  find gives
\* the first entry of that name; its value grows, or a new entry is pushed.
RECURSIVE ByCategory(_, _)
ByCategory(ex, n) ==
    IF n = 0 THEN <<>>
    ELSE LET acc == ByCategory(ex, n - 1)
             t == ex[n]
             hits == {k \in DOMAIN acc : acc[k].name = t.category}
         IN  IF hits # {}
             THEN LET k == CHOOSE k \in hits : \A h \in hits : k <= h
                  IN  [acc EXCEPT ![k].value = JSAdd(@, t.amount)]
             ELSE Append(acc, [name |-> t.category, value |-> t.amount])

\* As expensesByCategory, without the filter on the type.
expensesByCategory_OfAll(txs) == ByCategory(txs, Len(txs))

\* Lines 78-91.
expensesByCategory(txs) ==
    ByCategory(OfType(txs, "expense"), Len(OfType(txs, "expense")))

\* ------------------------------------------------- the views on their own

\* Longest list the views are computed for on their own.
MaxViewLen == 3

\* Amounts of the records of those lists, in cents.
ViewAmounts == {450, 20000}

\* What a record of those lists is made of: a type, a category of that
\* type, an amount.
ViewChoices ==
    {<<ty, cat, a>> : ty \in TransactionType, cat \in Range(expenseCategories)
                                               \cup Range(incomeCategories),
                     a \in ViewAmounts}

ViewLists ==
    UNION {[1..n -> {c \in ViewChoices : c[2] \in Pickable(c[1])}] : n \in 0..MaxViewLen}

\* The list of records a choice per position stands for; ids are distinct.
ViewList(f) ==
    [i \in 1..Len(f) |->
        [id |-> NatString(i), description |-> "Coffee", amount |-> JNum(f[i][3]),
         type |-> f[i][1], category |-> f[i][2], date |-> "1970-01-01"]]

\* The dashboard of a settled session that holds such a list.
InitViews ==
    /\ \E f \in ViewLists : transactions = ViewList(f)
    /\ description = ""
    /\ amount = <<>>
    /\ type = "expense"
    /\ category = expenseCategories[1]
    /\ editingId = <<>>
    /\ activeTab = "dashboard"
    /\ localStorage = <<JSON_stringify(transactions)>>
    /\ now = FirstNow
    /\ strictMode = FALSE
    /\ pc = "ready"
    /\ pass = 1
    /\ queue = <<>>
    /\ lastAction = "none"
    /\ opened = Forgotten

\* The views are recomputed at every render; here the renders are those of
\* the dashboard after a delete.
SpecViews == InitViews /\ [][handleDelete]_vars

\* ---------------------------------------------------------------- claims

\* The positions of txs that hold a record with this id.
At(txs, id) == {i \in DOMAIN txs : txs[i].id = id}

\* C1: no two records of the list have the same id.  (The claim goes on:
\* and a new id differs from every id given out before.  The code breaks the
\* first half already.)
C1_UniqueIds ==
    \A i, j \in DOMAIN transactions :
        i # j => transactions[i].id # transactions[j].id

\* C2: every record of the list has an amount that is a number greater
\* than zero.
C2_AmountsPositive ==
    \A i \in DOMAIN transactions :
        transactions[i].amount.t = "number" /\ transactions[i].amount.v > 0

\* C2's case: a record went through an accepted edit-submit and the list
\* holds what was typed, 4.50.
C2_Witness ==
    /\ lastAction = "submit-edit"
    /\ \E i \in DOMAIN transactions : transactions[i].amount = JNum(450)

\* What C3 calls an invalid submission, read off the form: the description
\* is empty, or the amount is no number, or it is not above zero.
Invalid ==
    \/ description = ""
    \/ ParseFloat(amount).t # "number"
    \/ ParseFloat(amount).v <= 0

\* C3: a submit of an invalid form changes nothing: not the list, not the
\* stored item, not editingId, not the form fields.
C3_InvalidSubmitNoOp ==
    [][(handleSubmit /\ Invalid) =>
         UNCHANGED <<transactions, localStorage, editingId, form>>]_vars

\* C3's case: while a record was being edited, a submit with amount 0 was
\* dropped; the form still holds it.
C3_Witness ==
    /\ lastAction = "submit-rejected"
    /\ Truthy(editingId)
    /\ description # ""
    /\ amount = <<"0">>

\* C4: every record's category is in the list of the record's own type.
C4_CategoryOfType ==
    \A i \in DOMAIN transactions :
        transactions[i].category \in Range(CategoryList(transactions[i].type))

\* C4's case: the user changed the type to income, picked the second income
\* category and added the record.
C4_Witness ==
    /\ lastAction = "submit-new"
    /\ transactions # <<>>
    /\ transactions[Len(transactions)].type = "income"
    /\ transactions[Len(transactions)].category = incomeCategories[2]

\* C5: once start-edit on a record has settled, editingId is the record's
\* id, the form holds the record's description, amount, type and category,
\* and the form's tab is the active one.
C5_FormHoldsEdited ==
    lastAction = "start-edit" =>
        /\ activeTab = "add"
        /\ editingId # <<>>
        /\ \E i \in At(transactions, editingId[1]) :
             /\ description = transactions[i].description
             /\ ParseFloat(amount) = transactions[i].amount
             /\ type = transactions[i].type
             /\ category = transactions[i].category

\* C6: in a settled state the stored item is the serialization of the list
\* in memory.
C6_StoredIsList ==
    Ready => localStorage = <<JSON_stringify(transactions)>>

\* C6's case: a delete has settled and left one record.
C6_Witness ==
    Ready /\ lastAction = "delete" /\ Len(transactions) = 1

\* C7: once startup has settled, the list is the one an earlier session
\* stored, and the stored item is still the same; with nothing stored the
\* list is empty.
C7_RoundTrip ==
    (Ready /\ opened.known) =>
        IF opened.item = <<>> THEN transactions = <<>>
        ELSE /\ localStorage = opened.item
             /\ JSON_stringify(transactions) = opened.item[1]

\* C8: an accepted submit outside editing appends one record, which holds
\* the form's values, and leaves the records before it as they were.
C8_AddAppends ==
    [][(handleSubmit /\ lastAction' = "submit-new") =>
         /\ Len(transactions') = Len(transactions) + 1
         /\ SubSeq(transactions', 1, Len(transactions)) = transactions
         /\ LET r == transactions'[Len(transactions')]
            IN  /\ r.description = description
                /\ r.amount = ParseFloat(amount)
                /\ r.type = type
                /\ r.category = category]_vars

\* C8's case: a second record was added to a list of one.
C8_Witness ==
    /\ lastAction = "submit-new"
    /\ Len(transactions) = 2
    /\ transactions[2].id \in {NatString(t) : t \in FirstNow..MaxNow}

\* C9: an accepted submit while editing keeps the length; the record with
\* the edited id is replaced where it stands by one with that id and the
\* form's values; no other record changes; with no such record the list is
\* unchanged.
C9_EditReplacesOne ==
    [][(handleSubmit /\ lastAction' = "submit-edit") =>
         /\ Len(transactions') = Len(transactions)
         /\ \A i \in At(transactions, editingId[1]) :
              /\ transactions'[i].id = editingId[1]
              /\ transactions'[i].description = description
              /\ transactions'[i].amount = ParseFloat(amount)
              /\ transactions'[i].type = type
              /\ transactions'[i].category = category
         /\ Cardinality({i \in DOMAIN transactions :
                           transactions'[i] # transactions[i]}) <= 1
         /\ (At(transactions, editingId[1]) = {} => transactions' = transactions)]_vars

\* C10: a delete of an id that is in the list shortens the list by exactly
\* one and keeps the other records, in their order.
C10_DeleteRemovesOne ==
    [][handleDelete =>
         \E i \in DOMAIN transactions :
             transactions' =
                 SubSeq(transactions, 1, i - 1)
                     \o SubSeq(transactions, i + 1, Len(transactions))]_vars

\* C11: whenever the form's type changes, the form's category becomes the
\* first entry of the new type's list; and in every settled state the
\* form's category is in the list of the form's type.
C11_TypeChangeResetsCategory ==
    [][/\ type' # type => category' = CategoryList(type')[1]
       /\ Ready' => category' \in Range(CategoryList(type'))]_vars

\* C11's case: start-edit changed the type to income, and the category is
\* the first income category although the record's own is the second.
C11_Witness ==
    /\ lastAction = "start-edit"
    /\ type = "income"
    /\ category = incomeCategories[1]
    /\ \E i \in At(transactions, editingId[1]) :
         transactions[i].category = incomeCategories[2]

\* C12: after an accepted submit, adding or replacing, editingId is null
\* and the form is blank: no description, no amount, type expense, category
\* Food.
C12_SubmitResetsForm ==
    lastAction \in {"submit-new", "submit-edit"} =>
        /\ editingId = <<>>
        /\ description = ""
        /\ amount = <<>>
        /\ type = "expense"
        /\ category = "Food"

\* C12's case: an edit-submit made from an income form has settled.
C12_Witness ==
    /\ lastAction = "submit-edit"
    /\ \E i \in DOMAIN transactions :
         transactions[i].type = "income" /\ transactions[i].description = "Coffee"

\* Sum of the amounts, in cents, of the records of txs at the positions I.
RECURSIVE SumOver(_, _)
SumOver(txs, I) ==
    IF I = {} THEN 0
    ELSE LET i == CHOOSE i \in I : TRUE
         IN  txs[i].amount.v + SumOver(txs, I \ {i})

\* Positions of the records of type ty.
Positions(txs, ty) == {i \in DOMAIN txs : txs[i].type = ty}

\* Sum of the values of the entries of the chart.
RECURSIVE SumValues(_)
SumValues(entries) ==
    IF entries = <<>> THEN JNum(0)
    ELSE JSAdd(Head(entries).value, SumValues(Tail(entries)))

C14_TotalsOfCurrentRecords ==
    Ready =>
        /\ totalIncome(transactions)
              = JNum(SumOver(transactions, Positions(transactions, "income")))
        /\ totalExpenses(transactions)
              = JNum(SumOver(transactions, Positions(transactions, "expense")))
        /\ balance(transactions)
              = JNum(SumOver(transactions, Positions(transactions, "income"))
                     - SumOver(transactions, Positions(transactions, "expense")))

\* An edit has just replaced a record, and expenses now exceed income.
C14_Witness ==
    /\ lastAction = "submit-edit"
    /\ totalIncome(transactions).v > 0
    /\ balance(transactions).v < 0

\* Position in txs of the first expense record of category c.
FirstOf(txs, c) ==
    CHOOSE i \in Positions(txs, "expense") :
        /\ txs[i].category = c
        /\ \A j \in Positions(txs, "expense") : txs[j].category = c => i <= j

\* C17: expensesByCategory has one entry per category that occurs among the
\* expense records, in the order of first occurrence, each with the sum of
\* that category's expense amounts; income records add nothing and no entry
\* has the value 0.
C17_OneEntryPerExpenseCategory ==
    LET entries == expensesByCategory(transactions)
        exp == Positions(transactions, "expense")
    IN  /\ \A k, l \in DOMAIN entries : entries[k].name = entries[l].name => k = l
        /\ {entries[k].name : k \in DOMAIN entries}
              = {transactions[i].category : i \in exp}
        /\ \A k, l \in DOMAIN entries :
              k < l => FirstOf(transactions, entries[k].name)
                         < FirstOf(transactions, entries[l].name)
        /\ \A k \in DOMAIN entries :
              /\ entries[k].value
                    = JNum(SumOver(transactions,
                                   {i \in exp : transactions[i].category = entries[k].name}))
              /\ entries[k].value # JNum(0)

\* An income record first, then Housing, Food, and the chart in that order.
C17_Witness ==
    /\ Len(transactions) = MaxViewLen
    /\ transactions[1].type = "income"
    /\ Len(expensesByCategory(transactions)) = 2
    /\ expensesByCategory(transactions)[1].name = expenseCategories[2]
    /\ expensesByCategory(transactions)[2].name = expenseCategories[1]

\* C16: a cancel while editing leaves no record being edited, puts the
\* default values in the fields, and changes neither the list nor the
\* stored item.
C16_CancelRestoresDefaults ==
    [][(Truthy(editingId) /\ lastAction' = "cancel-edit" /\ now' = now) =>
         /\ editingId' = <<>>
         /\ description' = "" /\ amount' = <<>>
         /\ type' = "expense" /\ category' = "Food"
         /\ transactions' = transactions
         /\ localStorage' = localStorage]_vars

\* An edit of an income record has just been cancelled; the record is there.
C16_Witness ==
    /\ lastAction = "cancel-edit"
    /\ editingId = <<>>
    /\ \E i \in DOMAIN transactions : transactions[i].type = "income"

\* C15: when setItem throws while an add, an edit or a delete is applied,
\* the list in memory does not hold the change: it is the list last stored.
C15_FailedSaveNotReflected ==
    (pc = "crashed" /\ lastAction \in {"submit-new", "submit-edit", "delete"}) =>
        localStorage = <<JSON_stringify(transactions)>>

\* editingId names a record that is not in the list.
Dangling == Truthy(editingId) /\ At(transactions, editingId[1]) = {}

\* C18, as stated: while a record is being edited, a record with that id is
\* in the list.
C18_EditingIdExists == ~Dangling

\* C18, amended: start-edit leaves editingId naming a record of the list,
\* and editingId comes to name no record only by a delete of the record
\* being edited.
C18_DanglingOnlyByDelete ==
    [][/\ (lastAction' = "start-edit" /\ now' = now) => ~Dangling'
       /\ (Dangling' /\ ~Dangling) =>
             /\ lastAction' = "delete"
             /\ editingId' = editingId
             /\ transactions' = Removed(transactions, editingId[1])]_vars

\* The record being edited has just been deleted from the dashboard.
C18_Witness ==
    /\ lastAction = "delete"
    /\ activeTab = "dashboard"
    /\ Dangling

\* C19: from the page load with a non-empty list stored until the first user
\* action, the stored item is the one found at the load.
C19_StartupKeepsStored ==
    (opened.known /\ opened.item # <<>> /\ opened.item[1] # <<>>) =>
        localStorage = opened.item

====
